---- MODULE Spec2Model ----
(***************************************************************************)
(* Model of the WeatherLink Live driver for WeeWX (bin/user/wll.py):       *)
(* the polling generator WLL.genLoopPackets, the translation of the        *)
(* condition records of one JSON document into one loop packet, and the    *)
(* rain accumulation derived from the storm counter.                       *)
(*                                                                         *)
(* Values.  A JSON number is an integer.  JSON null and Python None are    *)
(* the one value None.  A JSON object is a function whose domain is the    *)
(* set of keys it carries, so "key in condition" is key \in DOMAIN.        *)
(* Rain amounts are inches in units of 10^-10 inch, which makes the four   *)
(* collector sizes integers (0.01 inch is 10^8, 0.001 * 0.0393701 inch is  *)
(* 393701); the products are exact here, while the program computes them   *)
(* in binary floating point.                                               *)
(***************************************************************************)
EXTENDS Integers, Sequences, FiniteSets, TLC

None == -1          \* Python None, JSON null
TypeError == -2     \* marks an expression that raises

(***************************************************************************)
(* Bounds of the inputs the model enumerates.                              *)
(***************************************************************************)
MaxRecords == 2     \* condition records per document
MaxTotal == 2       \* largest rain_storm count
MaxStart == 2       \* number of distinct storm start times
MaxPass == 2        \* pass-through fields in one record of SpecMap

(***************************************************************************)
(* Program constants.                                                      *)
(***************************************************************************)
US == 1                          \* weewx.US
TransportBackoff == 2            \* time.sleep(2)
Hundredth == 100000000           \* 0.01 inch in model units
MM_TO_INCH == 393701             \* 0.0393701 * 0.001 inch in model units

Pythons == {2, 3}                \* interpreters the driver supports
PollIntervals == {10}            \* configured poll_interval

(***************************************************************************)
(* Field tables: input key, loop packet key, in the order of the code.     *)
(***************************************************************************)
IssBeforeRain ==
  << <<"temp", "outTemp">>,
     <<"hum", "outHumidity">>,
     <<"dew_point", "dewpoint">>,
     <<"heat_index", "heatindex">>,
     <<"wind_chill", "windchill">>,
     <<"wind_speed_last", "windSpeed">>,
     <<"wind_dir_last", "windDir">>,
     <<"wind_speed_hi_last_10_min", "windGust">>,
     <<"wind_dir_scalar_avg_last_10_min", "windGustDir">> >>

IssAfterRain ==
  << <<"solar_rad", "radiation">>,
     <<"uv_index", "UV">>,
     <<"trans_battery_flag", "txBatteryStatus">> >>

LeafSoil ==
  << <<"temp_1", "soilTemp1">>,
     <<"temp_2", "soilTemp2">>,
     <<"temp_3", "soilTemp3">>,
     <<"temp_4", "soilTemp4">>,
     <<"moist_soil_1", "soilMoist1">>,
     <<"moist_soil_2", "soilMoist3">>,
     <<"moist_soil_3", "soilMoist3">>,
     <<"moist_soil_4", "soilMoist4">>,
     <<"wet_leaf_1", "leafWet1">>,
     <<"wet_leaf_2", "leafWet2">> >>

LssBar ==
  << <<"bar_sea_level", "barometer">>,
     <<"bar_absolute", "pressure">> >>

LssTempHum ==
  << <<"temp_in", "inTemp">>,
     <<"hum_in", "inHumidity">>,
     <<"dew_point_in", "inDewpoint">> >>

(***************************************************************************)
(* The tables of one data_structure_type, and the input keys they read.    *)
(***************************************************************************)
TableOf(data_structure_type) ==
  CASE data_structure_type = 1 -> IssBeforeRain \o IssAfterRain
    [] data_structure_type = 2 -> LeafSoil
    [] data_structure_type = 3 -> LssBar
    [] data_structure_type = 4 -> LssTempHum
    [] OTHER -> <<>>

KeysOf(data_structure_type) ==
  {TableOf(data_structure_type)[i][1] :
     i \in 1 .. Len(TableOf(data_structure_type))}

(***************************************************************************)
(* A slip of the update: a key the packet already has keeps its value.     *)
(***************************************************************************)
UpdateKeepsFirst(pk, k, v) ==
  [x \in DOMAIN pk \cup {k} |-> IF x \in DOMAIN pk THEN pk[x] ELSE v]

(***************************************************************************)
(* _packet.update({k: v})                                                  *)
(***************************************************************************)
Update(pk, k, v) ==
  [x \in DOMAIN pk \cup {k} |-> IF x = k THEN v ELSE pk[x]]

(***************************************************************************)
(* The chain of `if "<key>" in condition: _packet.update(...)` statements  *)
(* of one table, from entry i on.                                          *)
(***************************************************************************)
RECURSIVE MapFields(_, _, _, _)
MapFields(pk, condition, table, i) ==
  IF i > Len(table) THEN pk
  ELSE MapFields(IF table[i][1] \in DOMAIN condition
                   THEN Update(pk, table[i][2], condition[table[i][1]])
                   ELSE pk,
                 condition, table, i + 1)

(***************************************************************************)
(* rain_count_size of a collector type in 1..4.                            *)
(***************************************************************************)
RainCountSize(rain_collector_type) ==
  CASE rain_collector_type = 1 -> Hundredth            \* 0.01
    [] rain_collector_type = 2 -> 200 * MM_TO_INCH     \* 0.2 * MM_TO_INCH
    [] rain_collector_type = 3 -> 10 * Hundredth       \* 0.1
    [] rain_collector_type = 4 -> MM_TO_INCH           \* 0.001 * MM_TO_INCH

(***************************************************************************)
(* `1 <= rain_collector_type <= 4`.  Comparing None with an integer raises *)
(* TypeError under Python 3 and is False under Python 2.                   *)
(***************************************************************************)
InRange(rain_collector_type, py) ==
  IF rain_collector_type = None
    THEN (IF py = 3 THEN TypeError ELSE 0)
    ELSE (IF 1 <= rain_collector_type /\ rain_collector_type <= 4 THEN 1 ELSE 0)

(***************************************************************************)
(* Two slips of the accumulation: the first reading counted in full, and   *)
(* the stored total not subtracted within a storm.                         *)
(***************************************************************************)
RainCountFirstInFull(rain_storm, rain_storm_start_at, lrs, lrsa, py) ==
  IF lrs # None /\ lrsa # None
    THEN IF rain_storm_start_at # lrsa
           THEN rain_storm
           ELSE IF rain_storm = None
                  THEN (IF py = 3 THEN TypeError ELSE 0)
                  ELSE IF rain_storm >= lrs THEN rain_storm - lrs ELSE 0
    ELSE rain_storm

RainCountNotSubtracted(rain_storm, rain_storm_start_at, lrs, lrsa, py) ==
  IF lrs # None /\ lrsa # None
    THEN IF rain_storm_start_at # lrsa
           THEN rain_storm
           ELSE IF rain_storm = None
                  THEN (IF py = 3 THEN TypeError ELSE 0)
                  ELSE IF rain_storm >= lrs THEN rain_storm ELSE 0
    ELSE 0

(***************************************************************************)
(* rain_count as lines 209-217 leave it: a count, None, or TypeError when  *)
(* `rain_storm >= self.last_rain_storm` compares None under Python 3.      *)
(***************************************************************************)
RainCount(rain_storm, rain_storm_start_at, lrs, lrsa, py) ==
  IF lrs # None /\ lrsa # None
    THEN IF rain_storm_start_at # lrsa
           THEN rain_storm
           ELSE IF rain_storm = None
                  THEN (IF py = 3 THEN TypeError ELSE 0)
                  ELSE IF rain_storm >= lrs THEN rain_storm - lrs ELSE 0
    ELSE 0

(***************************************************************************)
(* Result of executing part of the loop body: whether it raised, and the   *)
(* packet, the driver's attributes and the local rain_count_size at that   *)
(* point; reached tells that line 202 was true (the accumulation was       *)
(* computed from rain_storm and rain_storm_start_at).                      *)
(***************************************************************************)
Result(raised, pk, lrs, lrsa, rcs, reached) ==
  [raised |-> raised, packet |-> pk, last_rain_storm |-> lrs,
   last_rain_storm_start_at |-> lrsa, rain_count_size |-> rcs,
   reached |-> reached]

(***************************************************************************)
(* A slip of lines 219-220: the reading is stored only when it added rain. *)
(***************************************************************************)
RainStormStoredWhenRain(condition, pk, lrs, lrsa, rcs, py) ==
  IF "rain_storm" \in DOMAIN condition /\ "rain_storm_start_at" \in DOMAIN condition
    THEN LET rain_storm == condition["rain_storm"]
             rain_storm_start_at == condition["rain_storm_start_at"]
             rain_count == RainCount(rain_storm, rain_storm_start_at, lrs, lrsa, py)
         IN  IF rain_count = TypeError
               THEN Result(TRUE, pk, lrs, lrsa, rcs, TRUE)
               ELSE IF rain_count = None
                      THEN Result(TRUE, pk, rain_storm, rain_storm_start_at, rcs, TRUE)
                      ELSE IF rain_count = 0 /\ lrs # None /\ lrsa # None
                             THEN Result(FALSE, Update(pk, "rain", 0),
                                         lrs, lrsa, rcs, TRUE)
                             ELSE Result(FALSE, Update(pk, "rain", rain_count * rcs),
                                         rain_storm, rain_storm_start_at, rcs, TRUE)
    ELSE Result(FALSE, pk, lrs, lrsa, rcs, FALSE)

(***************************************************************************)
(* A slip of line 202: a record without the storm fields clears the stored *)
(* reading.                                                                *)
(***************************************************************************)
RainStormResetsWhenAbsent(condition, pk, lrs, lrsa, rcs, py) ==
  IF "rain_storm" \in DOMAIN condition /\ "rain_storm_start_at" \in DOMAIN condition
    THEN LET rain_storm == condition["rain_storm"]
             rain_storm_start_at == condition["rain_storm_start_at"]
             rain_count == RainCount(rain_storm, rain_storm_start_at, lrs, lrsa, py)
         IN  IF rain_count = TypeError
               THEN Result(TRUE, pk, lrs, lrsa, rcs, TRUE)
               ELSE IF rain_count = None
                      THEN Result(TRUE, pk, rain_storm, rain_storm_start_at, rcs, TRUE)
                      ELSE Result(FALSE, Update(pk, "rain", rain_count * rcs),
                                  rain_storm, rain_storm_start_at, rcs, TRUE)
    ELSE Result(FALSE, pk, None, None, rcs, FALSE)

(***************************************************************************)
(* Lines 202-222: the accumulation since the previous reading.             *)
(***************************************************************************)
RainStorm(condition, pk, lrs, lrsa, rcs, py) ==
  IF "rain_storm" \in DOMAIN condition /\ "rain_storm_start_at" \in DOMAIN condition
    THEN LET rain_storm == condition["rain_storm"]
             rain_storm_start_at == condition["rain_storm_start_at"]
             rain_count == RainCount(rain_storm, rain_storm_start_at, lrs, lrsa, py)
         IN  IF rain_count = TypeError
               THEN Result(TRUE, pk, lrs, lrsa, rcs, TRUE)
               ELSE IF rain_count = None
                      THEN Result(TRUE, pk, rain_storm, rain_storm_start_at, rcs, TRUE)
                      ELSE Result(FALSE, Update(pk, "rain", rain_count * rcs),
                                  rain_storm, rain_storm_start_at, rcs, TRUE)
    ELSE Result(FALSE, pk, lrs, lrsa, rcs, FALSE)

(***************************************************************************)
(* Lines 199-200: rainRate; float(None) raises TypeError.                  *)
(***************************************************************************)
RainRate(condition, pk, lrs, lrsa, rcs, py) ==
  IF "rain_rate_last" \in DOMAIN condition
    THEN IF condition["rain_rate_last"] = None
           THEN Result(TRUE, pk, lrs, lrsa, rcs, FALSE)
           ELSE RainStorm(condition,
                          Update(pk, "rainRate", condition["rain_rate_last"] * rcs),
                          lrs, lrsa, rcs, py)
    ELSE RainStorm(condition, pk, lrs, lrsa, rcs, py)

(***************************************************************************)
(* Two slips of the rain collector block: the size is the one left by an   *)
(* earlier record, and the block is not gated on the collector type.       *)
(***************************************************************************)
RainStaleSize(condition, pk, lrs, lrsa, rcs, py) ==
  IF "rain_size" \in DOMAIN condition
    THEN LET rain_collector_type == condition["rain_size"]
             in_range == InRange(rain_collector_type, py)
         IN  IF in_range = TypeError
               THEN Result(TRUE, pk, lrs, lrsa, rcs, FALSE)
               ELSE IF in_range = 1
                      THEN RainRate(condition, pk, lrs, lrsa,
                                    IF rcs = None
                                      THEN RainCountSize(rain_collector_type)
                                      ELSE rcs, py)
                      ELSE Result(FALSE, pk, lrs, lrsa, rcs, FALSE)
    ELSE Result(FALSE, pk, lrs, lrsa, rcs, FALSE)

RainUngated(condition, pk, lrs, lrsa, rcs, py) ==
  IF "rain_size" \in DOMAIN condition
    THEN LET rain_collector_type == condition["rain_size"]
             in_range == InRange(rain_collector_type, py)
         IN  IF in_range = TypeError
               THEN Result(TRUE, pk, lrs, lrsa, rcs, FALSE)
               ELSE IF in_range = 1
                      THEN RainRate(condition, pk, lrs, lrsa,
                                    RainCountSize(rain_collector_type), py)
                      ELSE RainRate(condition, pk, lrs, lrsa, Hundredth, py)
    ELSE Result(FALSE, pk, lrs, lrsa, rcs, FALSE)

(***************************************************************************)
(* Lines 181-222: the rain collector block of an ISS record.               *)
(***************************************************************************)
Rain(condition, pk, lrs, lrsa, rcs, py) ==
  IF "rain_size" \in DOMAIN condition
    THEN LET rain_collector_type == condition["rain_size"]
             in_range == InRange(rain_collector_type, py)
         IN  IF in_range = TypeError
               THEN Result(TRUE, pk, lrs, lrsa, rcs, FALSE)
               ELSE IF in_range = 1
                      THEN RainRate(condition, pk, lrs, lrsa,
                                    RainCountSize(rain_collector_type), py)
                      ELSE Result(FALSE, pk, lrs, lrsa, rcs, FALSE)
    ELSE Result(FALSE, pk, lrs, lrsa, rcs, FALSE)

(***************************************************************************)
(* Lines 152-231: data_structure_type 1, the ISS record.                   *)
(***************************************************************************)
Iss(condition, pk, lrs, lrsa, rcs, py) ==
  LET r == Rain(condition, MapFields(pk, condition, IssBeforeRain, 1),
                lrs, lrsa, rcs, py)
  IN  IF r.raised THEN r
      ELSE [r EXCEPT !.packet = MapFields(r.packet, condition, IssAfterRain, 1)]

(***************************************************************************)
(* A slip of the dispatch on data_structure_type: a record of an unknown   *)
(* type is read as an ISS record.                                          *)
(***************************************************************************)
ProcessConditionUnknownIsIss(condition, pk, lrs, lrsa, rcs, py) ==
  IF "data_structure_type" \notin DOMAIN condition
    THEN Result(TRUE, pk, lrs, lrsa, rcs, FALSE)
    ELSE LET data_structure_type == condition["data_structure_type"]
         IN  CASE data_structure_type = 2 ->
                    Result(FALSE, MapFields(pk, condition, LeafSoil, 1),
                           lrs, lrsa, rcs, FALSE)
               [] data_structure_type = 3 ->
                    Result(FALSE, MapFields(pk, condition, LssBar, 1),
                           lrs, lrsa, rcs, FALSE)
               [] data_structure_type = 4 ->
                    Result(FALSE, MapFields(pk, condition, LssTempHum, 1),
                           lrs, lrsa, rcs, FALSE)
               [] OTHER -> Iss(condition, pk, lrs, lrsa, rcs, py)

(***************************************************************************)
(* Lines 149-285: the body of `for condition in data['data']['conditions']`*)
(* for one record.  condition["data_structure_type"] raises KeyError when  *)
(* the key is missing.                                                     *)
(***************************************************************************)
ProcessCondition(condition, pk, lrs, lrsa, rcs, py) ==
  IF "data_structure_type" \notin DOMAIN condition
    THEN Result(TRUE, pk, lrs, lrsa, rcs, FALSE)
    ELSE LET data_structure_type == condition["data_structure_type"]
         IN  CASE data_structure_type = 1 ->
                    Iss(condition, pk, lrs, lrsa, rcs, py)
               [] data_structure_type = 2 ->
                    Result(FALSE, MapFields(pk, condition, LeafSoil, 1),
                           lrs, lrsa, rcs, FALSE)
               [] data_structure_type = 3 ->
                    Result(FALSE, MapFields(pk, condition, LssBar, 1),
                           lrs, lrsa, rcs, FALSE)
               [] data_structure_type = 4 ->
                    Result(FALSE, MapFields(pk, condition, LssTempHum, 1),
                           lrs, lrsa, rcs, FALSE)
               [] OTHER -> Result(FALSE, pk, lrs, lrsa, rcs, FALSE)

(***************************************************************************)
(* Lines 142-145: the packet a cycle starts from.                          *)
(***************************************************************************)
NewPacket(timestamp) ==
  [k \in {"dateTime", "usUnits"} |-> IF k = "dateTime" THEN timestamp ELSE US]

(***************************************************************************)
(* Inputs.  A record is built from optional fields: Opt(k, V) is the       *)
(* choice of leaving key k out or giving it a value of V.                  *)
(***************************************************************************)
Opt(k, V) == {<<>>} \cup {k :> v : v \in V}

Totals == (0 .. MaxTotal) \cup {None}
Starts == (1 .. MaxStart) \cup {None}
Timestamps == {1000}

(***************************************************************************)
(* Records of the polling specification: ISS records of a 0.01 inch        *)
(* collector with every combination of the storm fields, a few records of  *)
(* the other kinds, and a record without data_structure_type.              *)
(***************************************************************************)
RainConditions ==
  {("data_structure_type" :> 1) @@ ("rain_size" :> 1) @@ c @@ d :
     c \in Opt("rain_storm", Totals),
     d \in Opt("rain_storm_start_at", Starts)}

OtherConditions ==
  {("data_structure_type" :> 1) @@ ("temp" :> 7),
   ("data_structure_type" :> 1) @@ ("rain_size" :> 2)
      @@ ("rain_storm" :> 1) @@ ("rain_storm_start_at" :> 1),
   ("data_structure_type" :> 1) @@ ("rain_size" :> 1) @@ ("rain_rate_last" :> 3),
   ("data_structure_type" :> 1) @@ ("rain_size" :> 1) @@ ("rain_rate_last" :> None),
   ("data_structure_type" :> 1) @@ ("rain_size" :> 0) @@ ("rain_rate_last" :> 3)
      @@ ("rain_storm" :> 1) @@ ("rain_storm_start_at" :> 1) @@ ("uv_index" :> 7),
   ("data_structure_type" :> 2) @@ ("moist_soil_2" :> 7),
   ("data_structure_type" :> 2) @@ ("moist_soil_3" :> 8),
   ("data_structure_type" :> 2) @@ ("moist_soil_2" :> 7) @@ ("moist_soil_3" :> 8),
   ("data_structure_type" :> 5) @@ ("temp" :> 7),
   "temp" :> 7}

Conditions == RainConditions \cup OtherConditions

(***************************************************************************)
(* What can be wrong with a response that was received: the body is not    *)
(* JSON (line 138), data or data.ts is missing (line 140), or              *)
(* data.conditions is missing (line 147).                                  *)
(***************************************************************************)
Malformed == {"json", "data", "ts", "conditions"}

(***************************************************************************)
(* State.                                                                  *)
(*   python, poll_interval      fixed at start-up                          *)
(*   last_rain_storm, last_rain_storm_start_at   attributes of the driver  *)
(*   rain_count_size, _packet   locals of genLoopPackets                   *)
(*   pc, nrec                   position in the loop, records consumed     *)
(*   yielded                    the packet the consumer holds, <<>> if none*)
(* History, written and never read by the program's actions:               *)
(*   slept        durations slept since the last request was issued        *)
(*   outcome      how the cycle before the next request ended              *)
(*   retry        a cycle failed since the last packet was consumed        *)
(*   observation  the reading the last step computed an accumulation from  *)
(*   seen         <<type, key>> of every field of the records of this      *)
(*                cycle's document consumed so far                         *)
(*   input        the record SpecMap and SpecRecord apply the loop body to *)
(*   before       the stored reading the specification starts from         *)
(*   document     data.ts of the last document received                    *)
(* The frame of a second generator made by another call of genLoopPackets  *)
(* on the same driver, which is not running:                               *)
(*   suspended    its position (not started, or at the yield), its _packet *)
(*                and its rain_count_size                                   *)
(*   everObserved a record with both storm fields numeric was processed    *)
(*   run          the current run of same-storm non-decreasing readings    *)
(***************************************************************************)
VARIABLES python, poll_interval, last_rain_storm, last_rain_storm_start_at,
          rain_count_size, _packet, pc, nrec, yielded,
          slept, outcome, retry, observation, seen, everObserved, run, input, before,
          document, suspended

vars == <<python, poll_interval, last_rain_storm, last_rain_storm_start_at,
          rain_count_size, _packet, pc, nrec, yielded,
          slept, outcome, retry, observation, seen, everObserved, run, input, before,
          document, suspended>>

config == <<python, poll_interval, input, before, suspended>>
attributes == <<last_rain_storm, last_rain_storm_start_at>>

NoObservation ==
  [reached |-> FALSE, raised |-> FALSE, total |-> None, start |-> None,
   rain_size |-> None]
NotStarted == [pc |-> "fetch", _packet |-> <<>>, rain_count_size |-> None]
NoRun == [active |-> FALSE, start |-> None, first |-> None, last |-> None, sum |-> 0]

(***************************************************************************)
(* WLL.__init__ (lines 97-114) and the first next() on the generator.      *)
(***************************************************************************)
Init ==
  /\ python \in Pythons
  /\ poll_interval \in PollIntervals
  /\ last_rain_storm = None
  /\ last_rain_storm_start_at = None
  /\ rain_count_size = None
  /\ _packet = <<>>
  /\ pc = "fetch"
  /\ nrec = 0
  /\ yielded = <<>>
  /\ slept = <<>>
  /\ outcome = "none"
  /\ retry = FALSE
  /\ observation = NoObservation
  /\ seen = {}
  /\ everObserved = FALSE
  /\ run = NoRun
  /\ input = <<>>
  /\ before = <<None, None>>
  /\ document = None
  /\ suspended = NotStarted

(***************************************************************************)
(* Lines 291-298, the handler of an exception raised in the cycle: it      *)
(* hands nothing to the consumer, sleeps poll_interval, and the loop goes  *)
(* on with the next request (as it does after line 136).  Before each: a   *)
(* handler that yields what was gathered, one that sleeps the short        *)
(* backoff, one that leaves the loop.                                      *)
(***************************************************************************)
ExceptYieldsPartial(pk) == pk

ExceptYields(pk) == <<>>

ExceptSleepShort(interval) == TransportBackoff

ExceptSleep(interval) == interval

AfterFailureStop == "stopped"

AfterFailure == "fetch"

(***************************************************************************)
(* Lines 127-136: requests.get raises; sleep 2 seconds and start over.     *)
(***************************************************************************)
TransportFailure ==
  /\ pc = "fetch"
  /\ pc' = AfterFailure
  /\ slept' = <<TransportBackoff>>
  /\ outcome' = "transport"
  /\ retry' = TRUE
  /\ observation' = NoObservation
  /\ seen' = {}
  /\ UNCHANGED <<config, attributes, rain_count_size, _packet, nrec,
                 yielded, everObserved, run, document>>

(***************************************************************************)
(* Lines 138-147 raise, lines 291-298 handle: the response is not JSON or  *)
(* lacks data, data.ts or data.conditions.  When only data.conditions is   *)
(* missing the packet of line 142 was already built.                       *)
(***************************************************************************)
ParseFailure ==
  /\ pc = "fetch"
  /\ \E kind \in Malformed, timestamp \in Timestamps :
       _packet' = IF kind = "conditions" THEN NewPacket(timestamp) ELSE _packet
  /\ pc' = AfterFailure
  /\ yielded' = ExceptYields(_packet')
  /\ slept' = <<ExceptSleep(poll_interval)>>
  /\ outcome' = "parse"
  /\ retry' = TRUE
  /\ observation' = NoObservation
  /\ seen' = {}
  /\ UNCHANGED <<config, attributes, rain_count_size, nrec, everObserved, run,
                 document>>

(***************************************************************************)
(* Lines 127-147: the response is a document with data.ts = timestamp and  *)
(* data.conditions; the loop over the records begins.                      *)
(***************************************************************************)
Receive(timestamp) ==
  /\ pc = "fetch"
  /\ _packet' = NewPacket(timestamp)
  /\ document' = timestamp
  /\ pc' = "conditions"
  /\ nrec' = 0
  /\ slept' = <<>>
  /\ outcome' = "none"
  /\ observation' = NoObservation
  /\ seen' = {}
  /\ UNCHANGED <<config, attributes, rain_count_size, yielded, retry,
                 everObserved, run>>

Fetch == \E timestamp \in Timestamps : Receive(timestamp)

(***************************************************************************)
(* History of one record: its fields, the reading, the run of readings.    *)
(***************************************************************************)
SeenOf(c) ==
  IF "data_structure_type" \in DOMAIN c
    THEN {<<c["data_structure_type"], k>> :
            k \in DOMAIN c \ {"data_structure_type"}}
    ELSE {}

ObservationOf(c, r) ==
  IF r.reached
    THEN [reached |-> TRUE, raised |-> r.raised,
          total |-> c["rain_storm"],
          start |-> c["rain_storm_start_at"],
          rain_size |-> c["rain_size"]]
    ELSE NoObservation

RunAfter(o, r) ==
  IF ~o.reached THEN run
  ELSE IF o.raised \/ o.total = None \/ o.start = None THEN NoRun
  ELSE LET delta == r.packet["rain"] \div r.rain_count_size
       IN  IF run.active /\ run.start = o.start /\ o.total >= run.last
             THEN [run EXCEPT !.last = o.total, !.sum = @ + delta]
             ELSE [active |-> TRUE, start |-> o.start, first |-> o.total,
                   last |-> o.total, sum |-> 0]

(***************************************************************************)
(* Lines 147-285 for the next record of the document; when the body raises,*)
(* lines 291-298: sleep poll_interval and start over.                      *)
(***************************************************************************)
Condition(c) ==
  /\ pc = "conditions"
  /\ nrec < MaxRecords
  /\ LET r == ProcessCondition(c, _packet, last_rain_storm,
                               last_rain_storm_start_at, rain_count_size, python)
         o == ObservationOf(c, r)
     IN  /\ _packet' = r.packet
         /\ last_rain_storm' = r.last_rain_storm
         /\ last_rain_storm_start_at' = r.last_rain_storm_start_at
         /\ rain_count_size' = r.rain_count_size
         /\ observation' = o
         /\ seen' = IF r.raised THEN {} ELSE seen \cup SeenOf(c)
         /\ everObserved' = (everObserved \/ (o.reached /\ o.total # None /\ o.start # None))
         /\ run' = RunAfter(o, r)
         /\ IF r.raised
              THEN /\ pc' = AfterFailure
                   /\ nrec' = 0
                   /\ yielded' = ExceptYields(r.packet)
                   /\ slept' = <<ExceptSleep(poll_interval)>>
                   /\ outcome' = "parse"
                   /\ retry' = TRUE
              ELSE /\ pc' = "conditions"
                   /\ nrec' = nrec + 1
                   /\ UNCHANGED <<yielded, slept, outcome, retry>>
  /\ UNCHANGED <<config, document>>

(***************************************************************************)
(* Line 287: the records are exhausted, the packet goes to the consumer    *)
(* and the generator is suspended.                                         *)
(***************************************************************************)
Yield ==
  /\ pc = "conditions"
  /\ pc' = "yield"
  /\ nrec' = 0
  /\ yielded' = _packet
  /\ observation' = NoObservation
  /\ UNCHANGED <<config, attributes, rain_count_size, _packet, slept, outcome,
                 retry, seen, everObserved, run, document>>

(***************************************************************************)
(* Line 289: the consumer asks for the next packet; the generator sleeps   *)
(* poll_interval and goes back to the top of the loop.                     *)
(***************************************************************************)
Resume ==
  /\ pc = "yield"
  /\ pc' = "fetch"
  /\ yielded' = <<>>
  /\ slept' = Append(slept, poll_interval)
  /\ outcome' = "ok"
  /\ retry' = FALSE
  /\ seen' = {}
  /\ UNCHANGED <<config, attributes, rain_count_size, _packet, nrec,
                 observation, everObserved, run, document>>

Next ==
  \/ TransportFailure
  \/ ParseFailure
  \/ Fetch
  \/ \E c \in Conditions : Condition(c)
  \/ Yield
  \/ Resume

Spec == Init /\ [][Next]_vars

(***************************************************************************)
(* The polling loop alone, with weak fairness: a request is answered or    *)
(* fails, the loop body runs on, a sleep ends, and the consumer asks for   *)
(* the next packet.  The documents have the records of OtherConditions and *)
(* records of type 3 and 4 that carry rain fields.                         *)
(***************************************************************************)
LoopConditions ==
  OtherConditions \cup
  {("data_structure_type" :> 3) @@ ("bar_absolute" :> 9) @@ ("rain_size" :> 1)
      @@ ("rain_storm" :> 2) @@ ("rain_storm_start_at" :> 2),
   ("data_structure_type" :> 4) @@ ("temp_in" :> 8) @@ ("rain_size" :> 1)
      @@ ("rain_storm" :> 2) @@ ("rain_storm_start_at" :> 2)}

NextLoop ==
  \/ TransportFailure
  \/ ParseFailure
  \/ Fetch
  \/ \E c \in LoopConditions : Condition(c)
  \/ Yield
  \/ Resume

FairSpec == Init /\ [][NextLoop]_vars /\ WF_vars(NextLoop)

(***************************************************************************)
(* The loop body as a function of one record: the records of every type    *)
(* with at most MaxPass of the keys that are copied into the packet, each   *)
(* with every value, applied to the packet of a new cycle.                 *)
(***************************************************************************)
PassVals == {0, 7, None}

MapConditions ==
  UNION {UNION {{("data_structure_type" :> t) @@ f : f \in [D -> PassVals]} :
                  D \in {E \in SUBSET KeysOf(t) : Cardinality(E) <= MaxPass}} :
           t \in 1 .. 4}

InitMap ==
  /\ python \in Pythons
  /\ poll_interval \in PollIntervals
  /\ last_rain_storm = None
  /\ last_rain_storm_start_at = None
  /\ rain_count_size = None
  /\ \E timestamp \in Timestamps :
       _packet = NewPacket(timestamp) /\ document = timestamp
  /\ pc = "conditions"
  /\ nrec = 0
  /\ yielded = <<>>
  /\ slept = <<>>
  /\ outcome = "none"
  /\ retry = FALSE
  /\ observation = NoObservation
  /\ seen = {}
  /\ everObserved = FALSE
  /\ run = NoRun
  /\ input \in MapConditions
  /\ before = <<None, None>>
  /\ suspended = NotStarted

Map ==
  /\ pc = "conditions"
  /\ LET r == ProcessCondition(input, _packet, last_rain_storm,
                               last_rain_storm_start_at, rain_count_size, python)
     IN  /\ _packet' = r.packet
         /\ last_rain_storm' = r.last_rain_storm
         /\ last_rain_storm_start_at' = r.last_rain_storm_start_at
         /\ rain_count_size' = r.rain_count_size
         /\ pc' = IF r.raised THEN "raised" ELSE "mapped"
  /\ seen' = SeenOf(input)
  /\ UNCHANGED <<config, nrec, yielded, slept, outcome, retry, observation,
                 everObserved, run, document>>

SpecMap == InitMap /\ [][Map]_vars

(***************************************************************************)
(* The loop body as a function of one record and of what earlier records   *)
(* and cycles left behind: ISS records with every collector type, in and   *)
(* out of range, null and absent, with and without the rain fields;        *)
(* records of the other types and of unknown types carrying ISS and rain   *)
(* fields; a stored reading, a rain_count_size and a packet left by        *)
(* earlier records.                                                        *)
(***************************************************************************)
RainSizes == (0 .. 5) \cup {None}
RainRates == {2, None}

StormFields ==
  {<<>>,
   "rain_storm" :> 1,
   ("rain_storm" :> 1) @@ ("rain_storm_start_at" :> 1),
   ("rain_storm" :> 2) @@ ("rain_storm_start_at" :> 1),
   ("rain_storm" :> 1) @@ ("rain_storm_start_at" :> 2),
   ("rain_storm" :> None) @@ ("rain_storm_start_at" :> 1),
   ("rain_storm" :> None) @@ ("rain_storm_start_at" :> None)}

IssRecords ==
  {("data_structure_type" :> 1) @@ a @@ b @@ c @@ d @@ e :
     a \in Opt("rain_size", RainSizes),
     b \in Opt("rain_rate_last", RainRates),
     c \in StormFields,
     d \in Opt("temp", {7, None}),
     e \in Opt("uv_index", {7})}

ForeignRecords ==
  {("data_structure_type" :> t) @@ ("temp" :> 7) @@ ("temp_in" :> 8)
     @@ ("rain_size" :> 1) @@ ("rain_rate_last" :> 2)
     @@ ("rain_storm" :> 1) @@ ("rain_storm_start_at" :> 2) @@ e :
     t \in {0, 2, 3, 4, 5, None},
     e \in Opt("bar_absolute", {9})}

RecordConditions == IssRecords \cup ForeignRecords \cup {"temp" :> 7}

StoredReadings == {<<None, None>>, <<1, 1>>, <<2, 1>>}
StaleSizes == {None, RainCountSize(2)}
EarlierPackets ==
  {NewPacket(1000),
   NewPacket(1000) @@ ("outTemp" :> 5) @@ ("rainRate" :> 0) @@ ("rain" :> 0)}

InitRecord ==
  /\ python \in Pythons
  /\ poll_interval \in PollIntervals
  /\ \E stored \in StoredReadings :
       /\ last_rain_storm = stored[1]
       /\ last_rain_storm_start_at = stored[2]
  /\ rain_count_size \in StaleSizes
  /\ _packet \in EarlierPackets
  /\ document = _packet["dateTime"]
  /\ pc = "conditions"
  /\ nrec = 0
  /\ yielded = <<>>
  /\ slept = <<>>
  /\ outcome = "none"
  /\ retry = FALSE
  /\ observation = NoObservation
  /\ seen = {}
  /\ everObserved = FALSE
  /\ run = NoRun
  /\ input \in RecordConditions
  /\ before = <<last_rain_storm, last_rain_storm_start_at>>
  /\ suspended = NotStarted

SpecRecord == InitRecord /\ [][Map]_vars

(***************************************************************************)
(* One cycle from the point where the document was received, started from  *)
(* any stored reading: the records of the document one after the other,    *)
(* then the packet is yielded, or a record raises and the cycle is over.   *)
(* The records carry no null; two ISS records share temp, three carry a    *)
(* reading.                                                                *)
(***************************************************************************)
CycleConditions ==
  {("data_structure_type" :> 1) @@ ("rain_size" :> 1)
      @@ ("rain_storm" :> 1) @@ ("rain_storm_start_at" :> 1),
   ("data_structure_type" :> 1) @@ ("rain_size" :> 1)
      @@ ("rain_storm" :> 2) @@ ("rain_storm_start_at" :> 1),
   ("data_structure_type" :> 1) @@ ("rain_size" :> 1)
      @@ ("rain_storm" :> 1) @@ ("rain_storm_start_at" :> 2),
   ("data_structure_type" :> 1) @@ ("temp" :> 7) @@ ("hum" :> 5),
   ("data_structure_type" :> 1) @@ ("temp" :> 8),
   ("data_structure_type" :> 1) @@ ("temp" :> 0) @@ ("uv_index" :> 7),
   ("data_structure_type" :> 3) @@ ("bar_absolute" :> 9),
   ("data_structure_type" :> 3) @@ ("bar_absolute" :> 7) @@ ("bar_sea_level" :> 8),
   "temp" :> 7}

InitCycle ==
  /\ python \in Pythons
  /\ poll_interval \in PollIntervals
  /\ \E stored \in StoredReadings :
       /\ last_rain_storm = stored[1]
       /\ last_rain_storm_start_at = stored[2]
  /\ rain_count_size \in StaleSizes
  /\ \E timestamp \in Timestamps :
       _packet = NewPacket(timestamp) /\ document = timestamp
  /\ pc = "conditions"
  /\ nrec = 0
  /\ yielded = <<>>
  /\ slept = <<>>
  /\ outcome = "none"
  /\ retry = FALSE
  /\ observation = NoObservation
  /\ seen = {}
  /\ everObserved = FALSE
  /\ run = NoRun
  /\ input = <<>>
  /\ before = <<last_rain_storm, last_rain_storm_start_at>>
  /\ suspended = NotStarted

NextCycle ==
  \/ \E c \in CycleConditions : Condition(c)
  \/ Yield

SpecCycle == InitCycle /\ [][NextCycle]_vars

(***************************************************************************)
(* The driver under a consumer that calls genLoopPackets a second time on  *)
(* the same driver object, as the engine does when it leaves and re-enters *)
(* its packet loop.  The two generators share last_rain_storm and          *)
(* last_rain_storm_start_at and have their own locals.  All of it runs on  *)
(* the consumer's thread (the driver starts none), so a generator runs     *)
(* from next() to its yield, and the consumer can turn to the other        *)
(* generator only while this one is suspended at line 287.  The device     *)
(* clock shows one of two times.                                           *)
(***************************************************************************)
Clock == {1000, 2000}

HostConditions ==
  {("data_structure_type" :> 1) @@ ("rain_size" :> 1)
      @@ ("rain_storm" :> 1) @@ ("rain_storm_start_at" :> 1),
   ("data_structure_type" :> 1) @@ ("rain_size" :> 1)
      @@ ("rain_storm" :> 2) @@ ("rain_storm_start_at" :> 1),
   "temp" :> 7}

Poll == \E timestamp \in Clock : Receive(timestamp)

SwitchPointsAnywhere == {"yield", "conditions"}

SwitchPoints == {"yield"}

Switch ==
  /\ pc \in SwitchPoints
  /\ pc' = suspended.pc
  /\ _packet' = suspended._packet
  /\ rain_count_size' = suspended.rain_count_size
  /\ suspended' = [pc |-> pc, _packet |-> _packet,
                   rain_count_size |-> rain_count_size]
  /\ yielded' = <<>>
  /\ nrec' = 0
  /\ UNCHANGED <<python, poll_interval, input, before, attributes, slept,
                 outcome, retry, observation, seen, everObserved, run, document>>

NextHost ==
  \/ TransportFailure
  \/ ParseFailure
  \/ Poll
  \/ \E c \in HostConditions : Condition(c)
  \/ Yield
  \/ Resume
  \/ Switch

SpecHost == Init /\ [][NextHost]_vars

(***************************************************************************)
(*                              Properties                                 *)
(***************************************************************************)

(***************************************************************************)
(* The accumulation and the collector size as the specification states     *)
(* them: no stored reading gives 0, another start time the whole total,    *)
(* the same start time the growth of the total, or 0 when it shrank.       *)
(***************************************************************************)
ClaimedDelta(lrs, lrsa, total, start) ==
  IF lrs = None \/ lrsa = None THEN 0
  ELSE IF start # lrsa THEN total
  ELSE IF total >= lrs THEN total - lrs
  ELSE 0

ClaimedSize(rain_size) ==
  CASE rain_size = 1 -> 100000000
    [] rain_size = 2 -> 78740200
    [] rain_size = 3 -> 1000000000
    [] rain_size = 4 -> 393701

\* C1: a step that computes the accumulation from a reading (total, start)
\* puts into the packet rain = delta * collector size, where delta is 0 when
\* no reading is stored, the total when the start time differs from the
\* stored one, total - stored total when the start time is the same and the
\* total did not shrink, and 0 when it shrank.
C1_StormDelta ==
  [][(observation'.reached /\ ~observation'.raised /\ observation'.total # None)
       => _packet'["rain"] =
            ClaimedDelta(last_rain_storm, last_rain_storm_start_at,
                         observation'.total, observation'.start)
              * ClaimedSize(observation'.rain_size)]_vars

\* The reading (1, s) was followed by (2, s) and the packet holds the growth.
C1_Witness ==
  /\ observation.reached /\ ~observation.raised
  /\ observation.total = 2
  /\ run.active /\ run.first = 1
  /\ _packet["rain"] = ClaimedSize(observation.rain_size)

\* C2: once a reading was processed, every later reading of a storm whose
\* start time differs from the stored start time yields rain = its whole
\* total, also when the readings in between reported no storm (null).
C2_NewStormInFull ==
  [][(/\ everObserved
      /\ observation'.reached /\ ~observation'.raised
      /\ observation'.total # None /\ observation'.start # None
      /\ observation'.start # last_rain_storm_start_at)
       => _packet'["rain"] = observation'.total * ClaimedSize(observation'.rain_size)]_vars

\* C3: over a run of readings with one start time and totals that never
\* shrink, the accumulations after the first reading add up to
\* last total - first total.
C3_RunSum == run.active => run.sum = run.last - run.first

\* A run that grew by two counts.
C3_Witness == run.active /\ run.last - run.first = 2 /\ observation.reached

\* C4: after every step that computes the accumulation from a reading with
\* a numeric total, the stored reading is the reading of that step, whatever
\* the accumulation was.
C4_StateFollowsObservation ==
  (observation.reached /\ observation.total # None) =>
    /\ last_rain_storm = observation.total
    /\ last_rain_storm_start_at = observation.start

\* A reading with total 1 gave the accumulation 0 (it was the first of its
\* run: the first ever, or one whose total shrank) and is stored.
C4_Witness ==
  /\ observation.reached /\ observation.total = 1 /\ observation.start # None
  /\ _packet["rain"] = 0
  /\ last_rain_storm = 1
  /\ run.active /\ run.first = 1 /\ run.last = 1

\* C5: last_rain_storm and last_rain_storm_start_at are both None or both
\* not None.
C5_BothOrNeither ==
  (last_rain_storm = None) <=> (last_rain_storm_start_at = None)

\* C6: a cycle that failed (no response, a malformed document, a record
\* that raised) has handed nothing to the consumer, and the loop is back at
\* the request.
C6_NoSnapshotOnFailure ==
  outcome \in {"transport", "parse"} => (yielded = <<>> /\ pc = "fetch")

\* The second record of a document raised after the first had put outTemp
\* into the packet.
C6_Witness ==
  outcome = "parse" /\ "outTemp" \in DOMAIN _packet /\ yielded = <<>>

\* C7: the loop always comes back to the request, and when from some point
\* on no cycle fails, packets are yielded again and again.
FailedCycle == pc # "yield" /\ pc' = "fetch"

C7_SelfHeals ==
  /\ []<>(pc = "fetch")
  /\ (<>[][~FailedCycle]_vars) => []<>(pc = "yield")

\* A packet is yielded by the cycle that follows a failed one.
C7_Witness == pc = "yield" /\ retry

\* C8: before the next request the loop has slept 2 seconds after a
\* transport failure, poll_interval after a parse failure, and poll_interval
\* once after a yielded packet.
C8_Backoff ==
  pc = "fetch" =>
    /\ outcome = "transport" => slept = <<2>>
    /\ outcome = "parse" => slept = <<poll_interval>>
    /\ outcome = "ok" => slept = <<poll_interval>>

\* A transport failure followed a failed cycle; the loop slept 2 seconds.
C8_Witness == pc = "fetch" /\ outcome = "transport" /\ slept = <<2>> /\ poll_interval # 2

(***************************************************************************)
(* The packet key the specification gives to an input key: the key of the  *)
(* code's table, and soilMoist2 for moist_soil_2.                          *)
(***************************************************************************)
DocumentedName(data_structure_type, k) ==
  IF data_structure_type = 2 /\ k = "moist_soil_2" THEN "soilMoist2"
  ELSE LET table == TableOf(data_structure_type)
       IN  table[CHOOSE i \in 1 .. Len(table) : table[i][1] = k][2]

\* C9: every key of a record of type 1..4 that is copied is found in the
\* packet under its documented name with the value of the record.
C9_EveryFieldMapped ==
  pc = "mapped" =>
    \A k \in DOMAIN input \ {"data_structure_type"} :
      LET name == DocumentedName(input["data_structure_type"], k)
      IN  name \in DOMAIN _packet /\ _packet[name] = input[k]

\* C10: every key of a yielded packet other than dateTime and usUnits has
\* its input key in a record of the cycle's document: rain needs rain_storm
\* and rain_storm_start_at, rainRate needs rain_rate_last, any other key
\* the key it is documented for.
C10_OnlyPresentFields ==
  pc = "yield" =>
    \A name \in DOMAIN yielded \ {"dateTime", "usUnits"} :
      CASE name = "rain" ->
             <<1, "rain_storm">> \in seen /\ <<1, "rain_storm_start_at">> \in seen
        [] name = "rainRate" -> <<1, "rain_rate_last">> \in seen
        [] OTHER ->
             \E f \in seen :
               /\ f[2] \in KeysOf(f[1])
               /\ DocumentedName(f[1], f[2]) = name
(***************************************************************************)
(* A record without its null fields (data_structure_type is kept).         *)
(***************************************************************************)
StripNull(c) ==
  [k \in {x \in DOMAIN c : x = "data_structure_type" \/ c[x] # None} |-> c[k]]

\* C11: a record is processed exactly as the same record without its null
\* fields would be: the same packet (so no output field for a null field, no
\* rain from a null rain_storm or rain_storm_start_at), the same stored
\* reading, and it raises only if that record would.
C11_NullIsAbsent ==
  [][pc = "conditions" =>
       LET r == ProcessCondition(StripNull(input), _packet, last_rain_storm,
                                 last_rain_storm_start_at, rain_count_size, python)
       IN  /\ _packet' = r.packet
           /\ last_rain_storm' = r.last_rain_storm
           /\ last_rain_storm_start_at' = r.last_rain_storm_start_at
           /\ (pc' = "raised") = r.raised]_vars

\* C12: a record whose data_structure_type is not 1, 2, 3 or 4 leaves the
\* packet and the stored reading as they were and does not raise, whatever
\* fields it carries.
C12_UnknownTypeIgnored ==
  [][(/\ pc = "conditions"
      /\ "data_structure_type" \in DOMAIN input
      /\ input["data_structure_type"] \notin 1 .. 4)
       => /\ _packet' = _packet
          /\ UNCHANGED attributes
          /\ pc' = "mapped"]_vars

\* A type-5 record with temp 7 and rain fields was processed after a record
\* that had put outTemp 5 into the packet and with a reading stored.
C12_Witness ==
  /\ pc = "mapped"
  /\ "data_structure_type" \in DOMAIN input /\ input["data_structure_type"] = 5
  /\ "temp" \in DOMAIN input /\ input["temp"] = 7
  /\ "outTemp" \in DOMAIN _packet /\ _packet["outTemp"] = 5
  /\ "barometer" \notin DOMAIN _packet /\ "pressure" \notin DOMAIN _packet
  /\ last_rain_storm = 2 /\ last_rain_storm_start_at = 1

C17_GatedOnRainSize ==
  [][(/\ pc = "conditions"
      /\ "data_structure_type" \in DOMAIN input
      /\ input["data_structure_type"] = 1
      /\ "rain_size" \in DOMAIN input
            => (input["rain_size"] # None /\ input["rain_size"] \notin 1 .. 4))
       => /\ pc' = "mapped"
          /\ UNCHANGED attributes
          /\ _packet' = MapFields(_packet, input, IssBeforeRain \o IssAfterRain, 1)
          /\ "temp" \in DOMAIN input => _packet'["outTemp"] = input["temp"]
          /\ "uv_index" \in DOMAIN input => _packet'["UV"] = input["uv_index"]
          /\ \A name \in {"rain", "rainRate"} :
               /\ name \in DOMAIN _packet' <=> name \in DOMAIN _packet
               /\ name \in DOMAIN _packet => _packet'[name] = _packet[name]]_vars

\* A record with rain_size 0, rain_rate_last, rain_storm,
\* rain_storm_start_at and uv_index 7 gave UV and neither rain nor rainRate.
C17_Witness ==
  /\ pc = "mapped"
  /\ "data_structure_type" \in DOMAIN input /\ input["data_structure_type"] = 1
  /\ "rain_size" \in DOMAIN input /\ input["rain_size"] = 0
  /\ "rain_rate_last" \in DOMAIN input /\ "rain_storm_start_at" \in DOMAIN input
  /\ "UV" \in DOMAIN _packet /\ _packet["UV"] = 7
  /\ "rain" \notin DOMAIN _packet /\ "rainRate" \notin DOMAIN _packet
\* C15: the accumulation is computed from a reading at most once in a
\* cycle: when a step computes it, no earlier record of the cycle has put
\* rain into the packet.
C15_OncePerCycle ==
  [][observation'.reached => "rain" \notin DOMAIN _packet]_vars

\* C16: when a record of the cycle raises, the stored reading is the one the
\* cycle started from.
C16_FailedCycleKeepsState ==
  outcome = "parse" => <<last_rain_storm, last_rain_storm_start_at>> = before

\* C18: the stored reading changes only in a step of the loop over the
\* records that computes the accumulation from an ISS record with rain_size
\* in 1..4, rain_storm and rain_storm_start_at; no transport failure, parse
\* failure or other record changes it.
C18_StateFrame ==
  [][attributes' # attributes =>
       /\ pc = "conditions"
       /\ observation'.reached
       /\ observation'.rain_size \in 1 .. 4
       /\ ~observation'.raised =>
            {<<1, "rain_size">>, <<1, "rain_storm">>, <<1, "rain_storm_start_at">>}
              \subseteq seen']_vars

\* The reading (1, 1) is still stored after a later cycle with a type-4
\* record that carries rain fields was yielded and a request failed.
C18_Witness ==
  /\ pc = "fetch" /\ outcome = "transport"
  /\ last_rain_storm = 1 /\ last_rain_storm_start_at = 1
  /\ "inTemp" \in DOMAIN _packet /\ "rain" \notin DOMAIN _packet

\* C19: a record of type 1..4 that does not raise leaves in the packet the
\* value of each of its copied fields, also where an earlier record of the
\* cycle had written the same key, and leaves every other key of the packet
\* as it was.
C19_LastWriteWins ==
  [][\A c \in CycleConditions :
       (Condition(c) /\ pc' = "conditions") =>
         LET table == TableOf(c["data_structure_type"])
             written == {table[i][2] :
                           i \in {j \in 1 .. Len(table) : table[j][1] \in DOMAIN c}}
         IN  /\ \A i \in 1 .. Len(table) :
                  table[i][1] \in DOMAIN c =>
                    /\ table[i][2] \in DOMAIN _packet'
                    /\ _packet'[table[i][2]] = c[table[i][1]]
             /\ \A name \in DOMAIN _packet \ (written \cup {"rain", "rainRate"}) :
                  name \in DOMAIN _packet' /\ _packet'[name] = _packet[name]]_vars

\* The packet yielded after {temp: 7, hum: 5} and then {temp: 8}: the later
\* temp, the hum of the earlier record.
C19_Witness ==
  /\ pc = "yield"
  /\ "outTemp" \in DOMAIN yielded /\ yielded["outTemp"] = 8
  /\ "outHumidity" \in DOMAIN yielded /\ yielded["outHumidity"] = 5
(***************************************************************************)
(* The order of one generator's loop: request, records, yield, sleep and   *)
(* request again; a failed cycle goes back to the request.                 *)
(***************************************************************************)
LoopOrder ==
  {<<"fetch", "conditions">>, <<"conditions", "yield">>,
   <<"yield", "fetch">>, <<"conditions", "fetch">>}

====
